---- MODULE Spec2Model ----
(***************************************************************************)
(* Multi-tenant client registry of the MCP server adapters.                *)
(*                                                                         *)
(* One registry object (tenant manager) of one adapter is modelled.  The   *)
(* adapter is fixed at construction; four of the repository's adapters are *)
(* covered, the others repeat one of them line for line:                   *)
(*   genImage  store + gate + closing wrapper   (nano-banana: same gate)   *)
(*   ai        store + gate + auxiliary provider clients                   *)
(*   mail      store, no gate                   (meilisearch: same chain)  *)
(*   postgres  no store, connection pool, closes the pool it replaces      *)
(***************************************************************************)
EXTENDS Integers, Sequences, FiniteSets, TLC

\* ---------------------------------------------------------------- bounds
MaxConc == 2        \* largest max_concurrent_requests a config carries
MaxOps  == 2        \* tool invocations that can be in flight at once
MaxObjs == 3        \* clients the registry constructs in one run

\* ------------------------------------------------------------ input sets
Adapters  == {"genImage", "ai", "mail", "postgres"}
TenantIds == {"a", "A"}
EnvNames  == {"A"}
RegKeys   == {"k1", "k2"}
Ops       == 1..MaxOps

\* str.upper() / str.lower() on the tenant ids of the model
upper(t) == CASE t = "a" -> "A" [] t = "A" -> "A"
lower(u) == CASE u = "A" -> "a" [] u = "a" -> "a"

\* ------------------------------------------------------------ adapters
HasStore(ad) == ad \in {"genImage", "ai", "mail"}
HasGate(ad)  == ad \in {"genImage", "ai"}

\* ------------------------------------------------------------- values
None      == [kind |-> "none"]
Malformed == [kind |-> "malformed"]

\* GenImageTenantConfig / AITenantConfig / MailTenantConfig /
\* PostgresTenantConfig: tenant_id, one credential-like field, the
\* concurrency limit and (ai) the auxiliary provider key
TenantConfig(t, k, n, orKey) ==
    [kind |-> "cfg", tenant_id |-> t, key |-> k,
     max_concurrent_requests |-> n, openrouter_api_key |-> orKey]

\* config.model_dump() followed by json.dumps(): the stored JSON object
model_dump_json(cfg) ==
    [kind |-> "json", tenant_id |-> cfg.tenant_id, key |-> cfg.key,
     max_concurrent_requests |-> cfg.max_concurrent_requests,
     openrouter_api_key |-> cfg.openrouter_api_key]

\* json.loads() followed by TenantConfig(**config_dict); raises on a value
\* that is not such an object
parse_json(rec) ==
    IF rec.kind = "json"
    THEN [exc |-> FALSE,
          cfg |-> TenantConfig(rec.tenant_id, rec.key,
                               rec.max_concurrent_requests,
                               rec.openrouter_api_key)]
    ELSE [exc |-> TRUE, cfg |-> None]

\* the entry dict kept in self.clients ({"client", "config", "semaphore",
\* "providers"}); client and semaphore are object identities (indices into
\* objs), 0 when the adapter has none
NoEntry == [kind |-> "none"]

VARIABLES
    adapter,            \* which adapter's registry this is
    env,                \* os.environ: per upper-case tenant name
    storeUp,            \* the Redis server is reachable
    store,              \* Redis contents under redis_key_prefix + tenant_id
    others,             \* the records other registries wrote to that Redis
    clients,            \* self.clients (postgres: self.pools)
    configs,            \* self.configs
    redis_client,       \* self.redis_client: "None" or "conn"
    redis_initialized,  \* self._redis_initialized
    order,              \* the keys of self.clients in insertion order
    objs,               \* the client/pool objects that exist (heap slots)
    ops,                \* the tool invocations
    last                \* observation of the last registry call

vars == <<adapter, env, storeUp, store, others, clients, configs, redis_client,
          redis_initialized, order, objs, ops, last>>

\* the registry object's fields together with the objects and the store it
\* acts on: the value the registry methods below transform
\* (built counts the clients constructed during one call, exc tells that an
\* exception of a store access is propagating, failed names any other
\* exception that is propagating, full tells that a construction found no
\* slot left)
Reg == [clients |-> clients, configs |-> configs,
        redis_client |-> redis_client,
        redis_initialized |-> redis_initialized, order |-> order,
        objs |-> objs, store |-> store, built |-> 0, exc |-> FALSE,
        failed |-> "none", full |-> FALSE]

\* --------------------------------------------------------- environment
DEFAULT_MAX_CONCURRENT == 10

\* the variables <PREFIX>_TENANT_<NAME>_* of one tenant name: the required
\* one (key), _MAX_CONCURRENT and (ai) _OPENROUTER_API_KEY
EnvRecs(ad) ==
    { [kind |-> "env", key |-> "ke",
       max_concurrent |-> IF HasGate(ad) THEN 1 ELSE 0,
       openrouter_api_key |-> o] :
        o \in IF ad = "ai" THEN BOOLEAN ELSE {FALSE} }

\* a config persisted by an earlier process
PersistedCfg(ad, t) ==
    TenantConfig(t, "kp", IF HasGate(ad) THEN 1 ELSE 0, FALSE)

\* the configs a caller passes to register_tenant: they differ in the
\* concurrency limit where the adapter has one, in the credential otherwise
RegConfigs(ad, t) ==
    IF HasGate(ad)
    THEN { TenantConfig(t, "k1", n, o) :
             n \in 1..MaxConc,
             o \in IF ad = "ai" THEN BOOLEAN ELSE {FALSE} }
    ELSE { TenantConfig(t, k, 0, FALSE) : k \in RegKeys }

\* ------------------------------------------------- persistent store
\* _init_redis: connect once; an unreachable store is remembered as
\* "initialized" with no client, so it is not tried again
init_redis(R) ==
    IF R.redis_initialized THEN R
    ELSE IF storeUp
         THEN [R EXCEPT !.redis_client = "conn", !.redis_initialized = TRUE]
         ELSE [R EXCEPT !.redis_client = "None", !.redis_initialized = TRUE]

\* self.redis_key_prefix of each registry that has a store
redis_key_prefix_shared(ad) == "mcp:tenant:"

redis_key_prefix(ad) ==
    CASE ad = "genImage" -> "mcp:genImage:tenant:"
      [] ad = "ai"       -> "mcp:ai-mcp-server:tenant:"
      [] ad = "mail"     -> "mcp:mail:tenant:"
      [] OTHER           -> ""

\* f"{self.redis_key_prefix}{tenant_id}"
redis_key(ad, t) == redis_key_prefix(ad) \o t

\* a key that redis keys(f"{prefix}*") returns
Matches(prefix, key) ==
    /\ Len(key) >= Len(prefix)
    /\ SubSeq(key, 1, Len(prefix)) = prefix

\* key.replace(self.redis_key_prefix, "") on a key that Matches
StripPrefix(prefix, key) == SubSeq(key, Len(prefix) + 1, Len(key))

\* redis get(key) for this registry's key of tenant id t: the record this
\* registry wrote unless another registry wrote one under that very key
redis_get(R, t) ==
    LET k == redis_key(adapter, t)
        hit == { r \in others : r.key = k }
    IN  IF hit /= {} THEN (CHOOSE r \in hit : TRUE).value ELSE R.store[t]

\* the tenant ids of redis keys(f"{prefix}*"): this registry's records and
\* every record of another registry whose key has the prefix
redis_keys(R) ==
    {u \in TenantIds : R.store[u] /= None}
    \cup { StripPrefix(redis_key_prefix(adapter), r.key) :
             r \in { x \in others :
                        Matches(redis_key_prefix(adapter), x.key) } }

\* the try body of _load_from_redis: redis get, json.loads, Config(**dict)
load_from_redis_try(R, t) ==
    IF ~storeUp THEN [exc |-> TRUE, cfg |-> None]
    ELSE IF redis_get(R, t) = None THEN [exc |-> FALSE, cfg |-> None]
    ELSE parse_json(redis_get(R, t))

\* _load_from_redis without its `except Exception`: what the try body
\* raises reaches the caller
load_from_redis_nocatch(R, t) ==
    LET R1 == init_redis(R) IN
    IF R1.redis_client = "None"
    THEN [R |-> R1, exc |-> FALSE, cfg |-> None, reads |-> 0]
    ELSE LET r == load_from_redis_try(R1, t) IN
         [R |-> R1, exc |-> r.exc, cfg |-> r.cfg, reads |-> 1]

\* _load_from_redis: [R, exc, cfg, reads]; every exception of the try body
\* is caught and turned into None
load_from_redis(R, t) ==
    LET R1 == init_redis(R) IN
    IF R1.redis_client = "None"
    THEN [R |-> R1, exc |-> FALSE, cfg |-> None, reads |-> 0]
    ELSE LET r == load_from_redis_try(R1, t) IN
         [R |-> R1, exc |-> FALSE,
          cfg |-> IF r.exc THEN None ELSE r.cfg, reads |-> 1]

\* a _save_to_redis whose key leaves out the tenant id: the one record is
\* what every tenant id reads
save_to_redis_onekey(R, cfg) ==
    LET R1 == init_redis(R) IN
    IF R1.redis_client = "None" THEN [R |-> R1, exc |-> FALSE]
    ELSE IF ~storeUp THEN [R |-> R1, exc |-> FALSE]
    ELSE [R |-> [R1 EXCEPT !.store =
                     [u \in TenantIds |-> model_dump_json(cfg)]],
          exc |-> FALSE]

\* _save_to_redis: [R, exc]; a failing set is caught
save_to_redis(R, cfg) ==
    LET R1 == init_redis(R) IN
    IF R1.redis_client = "None" THEN [R |-> R1, exc |-> FALSE]
    ELSE IF ~storeUp THEN [R |-> R1, exc |-> FALSE]
    ELSE [R |-> [R1 EXCEPT !.store[cfg.tenant_id] = model_dump_json(cfg)],
          exc |-> FALSE]

\* _load_all_from_redis: the configs of every key under the prefix that
\* loads; a failing keys() is caught and yields nothing
load_all_from_redis(R) ==
    LET R1 == init_redis(R) IN
    IF R1.redis_client = "None" THEN [R |-> R1, cfgs |-> {}]
    ELSE IF ~storeUp THEN [R |-> R1, cfgs |-> {}]
    ELSE [R |-> R1,
          cfgs |-> { load_from_redis(R1, t).cfg :
                       t \in redis_keys(R1) }
                   \ {None}]

\* ------------------------------------------------ environment source
\* load_tenant_from_env of genImage, mail, postgres (nano-banana,
\* meilisearch, minio alike): None unless the required variable is set
GenImage_load_tenant_from_env(ad, t) ==
    LET e == env[upper(t)] IN
    IF e = None THEN None
    ELSE TenantConfig(t, e.key, e.max_concurrent, e.openrouter_api_key)

\* load_tenant_from_env of ai: a missing _API_BASE_URL falls back to the
\* default URL, so a config is returned for every tenant id
AI_load_tenant_from_env(ad, t) ==
    LET e == env[upper(t)] IN
    IF e = None THEN TenantConfig(t, "default", DEFAULT_MAX_CONCURRENT, FALSE)
    ELSE TenantConfig(t, e.key, e.max_concurrent, e.openrouter_api_key)

load_tenant_from_env(ad, t) ==
    IF ad = "ai" THEN AI_load_tenant_from_env(ad, t)
    ELSE GenImage_load_tenant_from_env(ad, t)

\* ------------------------------------------------------ client factory
\* a constructed client (wrapper, httpx client, pool) with the gate and the
\* auxiliary provider client made along with it
FreeObj == [free |-> TRUE, cfg |-> None, open |-> FALSE, permits |-> 0,
            provider |-> "none"]

NewObj(cfg, gate, prov) ==
    [free |-> FALSE, cfg |-> cfg, open |-> TRUE,
     permits |-> IF gate THEN cfg.max_concurrent_requests ELSE 0,
     provider |-> IF prov THEN "open" ELSE "none"]

Entry(id, cfg, gate, provs) ==
    [kind |-> "entry", client |-> id, config |-> cfg,
     semaphore |-> IF gate THEN id ELSE 0, providers |-> provs]

\* the slot a newly constructed object takes (0: none left)
NewId(O) ==
    IF \A i \in DOMAIN O : ~O[i].free THEN 0
    ELSE CHOOSE i \in DOMAIN O :
            O[i].free /\ \A j \in DOMAIN O : j < i => ~O[j].free

Construct(R, id, obj) ==
    [R EXCEPT !.objs[id] = obj, !.built = @ + 1]

\* asyncio.Semaphore(value) raises ValueError on a negative value
SemaphoreRaises(cfg) == cfg.max_concurrent_requests < 0

\* the client or pool constructor rejects the fields of the config
\* (httpx.AsyncClient on an invalid URL or header value,
\* AsyncConnectionPool on min_size > max_size)
ClientRaises(cfg) == cfg.key = "bad"

\* the exception of a constructor propagates out of register_tenant
Raise(R, what) == [R EXCEPT !.failed = what]

\* `self.clients[tenant_id] = ...` on a dict: a new key goes last, a key
\* that is there keeps its place
Insert(seq, t) ==
    IF \E i \in DOMAIN seq : seq[i] = t THEN seq ELSE Append(seq, t)

\* `await self._save_to_redis(config)` as the last statement of
\* register_tenant: what it raises, register_tenant raises
Persist(R, cfg) ==
    LET sv == save_to_redis(R, cfg) IN
    IF sv.exc THEN [sv.R EXCEPT !.exc = TRUE] ELSE sv.R

\* ---------------------------------------------------- register_tenant
\* a register_tenant that keeps the entry a tenant id already has
\* (dict.setdefault instead of the assignments)
GenImage_register_tenant_keep(R, cfg) ==
    LET id == NewId(R.objs)
        R1 == [Construct(R, id, NewObj(cfg, TRUE, FALSE)) EXCEPT
                        !.clients[cfg.tenant_id] = Entry(id, cfg, TRUE, {}),
                        !.order = Insert(@, cfg.tenant_id),
                        !.configs[cfg.tenant_id] = cfg]
    IN  IF R.clients[cfg.tenant_id] /= NoEntry THEN R
        ELSE IF id = 0 THEN [R EXCEPT !.full = TRUE]
        ELSE Persist(R1, cfg)

\* genImage, up to its await: the wrapper with a fresh
\* Semaphore(max_concurrent_requests) is built, the entry and the config
\* are stored
GenImage_build(R, cfg) ==
    LET id == NewId(R.objs)
        R1 == [Construct(R, id, NewObj(cfg, TRUE, FALSE)) EXCEPT
                        !.clients[cfg.tenant_id] = Entry(id, cfg, TRUE, {}),
                        !.order = Insert(@, cfg.tenant_id),
                        !.configs[cfg.tenant_id] = cfg]
    IN  IF SemaphoreRaises(cfg) \/ ClientRaises(cfg) THEN Raise(R, "config")
        ELSE IF id = 0 THEN [R EXCEPT !.full = TRUE]
        ELSE R1

\* genImage: the entry and the config are stored, then the config is
\* persisted
GenImage_register_tenant(R, cfg) ==
    LET B == GenImage_build(R, cfg) IN
    IF B.failed /= "none" \/ B.full THEN B ELSE Persist(B, cfg)

\* ai: as genImage, plus the provider clients of a non-global tenant
AI_register_tenant(R, cfg) ==
    LET id == NewId(R.objs)
        prov == cfg.tenant_id /= "global" /\ cfg.openrouter_api_key
        R1 == [Construct(R, id, NewObj(cfg, TRUE, prov)) EXCEPT
                        !.clients[cfg.tenant_id] =
                            Entry(id, cfg, TRUE,
                                  IF prov THEN {"openrouter"} ELSE {}),
                        !.order = Insert(@, cfg.tenant_id),
                        !.configs[cfg.tenant_id] = cfg]
    IN  IF SemaphoreRaises(cfg) \/ ClientRaises(cfg) THEN Raise(R, "config")
        ELSE IF id = 0 THEN [R EXCEPT !.full = TRUE]
        ELSE Persist(R1, cfg)

\* mail: self.clients holds the bare httpx client; no gate
Mail_register_tenant(R, cfg) ==
    LET id == NewId(R.objs)
        R1 == [Construct(R, id, NewObj(cfg, FALSE, FALSE)) EXCEPT
                        !.clients[cfg.tenant_id] = Entry(id, None, FALSE, {}),
                        !.order = Insert(@, cfg.tenant_id),
                        !.configs[cfg.tenant_id] = cfg]
    IN  IF ClientRaises(cfg) THEN Raise(R, "config")
        ELSE IF id = 0 THEN [R EXCEPT !.full = TRUE]
        ELSE Persist(R1, cfg)

\* postgres, up to its first await: `if config.tenant_id in self.pools:
\* await self.pools[config.tenant_id].close()`
Postgres_close_existing(R, t) ==
    IF R.clients[t] /= NoEntry
    THEN [R EXCEPT !.objs[R.clients[t].client].open = FALSE]
    ELSE R

\* postgres, the rest: the new pool is constructed and opened, then the
\* maps are assigned; no store
Postgres_open_pool(R, cfg) ==
    LET t  == cfg.tenant_id
        id == NewId(R.objs)
    IN  IF ClientRaises(cfg) THEN Raise(R, "config")
        ELSE IF id = 0 THEN [R EXCEPT !.full = TRUE]
        ELSE [Construct(R, id, NewObj(cfg, FALSE, FALSE)) EXCEPT
                  !.clients[t] = Entry(id, None, FALSE, {}),
                  !.order = Insert(@, t),
                  !.configs[t] = cfg]

\* postgres: an existing pool of the tenant is closed first, then the new
\* pool is constructed and opened and the maps are assigned
Postgres_register_tenant(R, cfg) ==
    Postgres_open_pool(Postgres_close_existing(R, cfg.tenant_id), cfg)

register_tenant(ad, R, cfg) ==
    CASE ad = "genImage" -> GenImage_register_tenant(R, cfg)
      [] ad = "ai"       -> AI_register_tenant(R, cfg)
      [] ad = "mail"     -> Mail_register_tenant(R, cfg)
      [] ad = "postgres" -> Postgres_register_tenant(R, cfg)

\* --------------------------------------------------------- get_client
\* a get_client that never finds the tenant in self.clients
IsCached_never(R, t) == FALSE

\* `tenant_id not in self.clients`
IsCached(R, t) == R.clients[t] /= NoEntry

\* get_client of genImage, ai, mail after `tenant_id not in self.clients`
\* was found true: store, then environment, register, return the entry
GenImage_resolve(ad, R, t) ==
    LET l == load_from_redis(R, t)
        config == IF l.cfg = None THEN load_tenant_from_env(ad, t)
                  ELSE l.cfg
    IN  IF l.exc
        THEN [R |-> l.R, raised |-> "store", result |-> NoEntry,
              reads |-> l.reads]
        ELSE IF config /= None
        THEN LET R2 == register_tenant(ad, l.R, config) IN
             IF R2.failed /= "none"
             THEN [R |-> R2, raised |-> R2.failed, result |-> NoEntry,
                   reads |-> l.reads]
             ELSE IF R2.exc
             THEN [R |-> R2, raised |-> "store", result |-> NoEntry,
                   reads |-> l.reads]
             ELSE [R |-> R2, raised |-> "none",
                   result |-> R2.clients[t], reads |-> l.reads]
        ELSE [R |-> l.R, raised |-> "notfound", result |-> NoEntry,
              reads |-> l.reads]

\* get_client of genImage, ai, mail: cache, then store, then environment
GenImage_get_client(ad, R, t) ==
    IF IsCached(R, t)
    THEN [R |-> R, raised |-> "none", result |-> R.clients[t], reads |-> 0]
    ELSE GenImage_resolve(ad, R, t)

\* get_pool of postgres: cache, then environment
Postgres_get_pool(ad, R, t) ==
    IF IsCached(R, t)
    THEN [R |-> R, raised |-> "none", result |-> R.clients[t], reads |-> 0]
    ELSE LET config == load_tenant_from_env(ad, t) IN
         IF config /= None
         THEN LET R2 == register_tenant(ad, R, config) IN
              IF R2.failed /= "none"
              THEN [R |-> R2, raised |-> R2.failed, result |-> NoEntry,
                    reads |-> 0]
              ELSE [R |-> R2, raised |-> "none", result |-> R2.clients[t],
                    reads |-> 0]
         ELSE [R |-> R, raised |-> "notfound", result |-> NoEntry,
               reads |-> 0]

get_client(ad, R, t) ==
    IF ad = "postgres" THEN Postgres_get_pool(ad, R, t)
    ELSE GenImage_get_client(ad, R, t)

\* --------------------------------------------------------- initialize
\* `for config in ...: await self.register_tenant(config)`; an exception
\* of register_tenant ends the loop and propagates
RECURSIVE RegisterEach(_, _, _)
RegisterEach(ad, R, cfgs) ==
    IF cfgs = {} \/ R.failed /= "none" THEN R
    ELSE LET c == CHOOSE x \in cfgs : TRUE IN
         RegisterEach(ad, register_tenant(ad, R, c), cfgs \ {c})

\* the tenant ids the scan of os.environ derives: the variable name with
\* prefix and suffix removed, lower-cased
EnvScan == { lower(u) : u \in {n \in EnvNames : env[n] /= None} }

\* initialize of genImage, ai, mail: every persisted config is registered,
\* then every scanned tenant id that is not in self.configs
GenImage_initialize(ad, R) ==
    LET la == load_all_from_redis(R)
        R1 == RegisterEach(ad, la.R, la.cfgs)
        todo == { t \in EnvScan : R1.configs[t] = None }
    IN  RegisterEach(ad, R1,
                     { load_tenant_from_env(ad, t) : t \in todo } \ {None})

\* ---------------------------------------------------------- close_all
CachedIds(R) == { R.clients[t].client : t \in {u \in TenantIds : IsCached(R, u)} }

NoClients == [t \in TenantIds |-> NoEntry]
NoConfigs == [t \in TenantIds |-> None]

\* a close_all that resets _redis_initialized outside the
\* `if self.redis_client`
CloseRedis_reset(R) ==
    [R EXCEPT !.redis_client = "None", !.redis_initialized = FALSE]

\* `if self.redis_client: aclose(); redis_client = None;
\*  _redis_initialized = False`
CloseRedis(R) ==
    IF R.redis_client /= "None"
    THEN [R EXCEPT !.redis_client = "None", !.redis_initialized = FALSE]
    ELSE R

\* genImage: every cached wrapper is closed, both maps are cleared
GenImage_close_all(R) ==
    CloseRedis([R EXCEPT
        !.objs = [i \in DOMAIN R.objs |->
                    IF i \in CachedIds(R)
                    THEN [R.objs[i] EXCEPT !.open = FALSE] ELSE R.objs[i]],
        !.clients = NoClients,
        !.order = <<>>,
        !.configs = NoConfigs])

\* ai: the wrappers and their provider clients are closed
AI_close_all(R) ==
    CloseRedis([R EXCEPT
        !.objs = [i \in DOMAIN R.objs |->
                    IF i \in CachedIds(R)
                    THEN [R.objs[i] EXCEPT
                            !.open = FALSE,
                            !.provider = IF @ = "none" THEN "none"
                                         ELSE "closed"]
                    ELSE R.objs[i]],
        !.clients = NoClients,
        !.order = <<>>,
        !.configs = NoConfigs])

\* mail: the clients are closed and self.clients is cleared; self.configs
\* is left as it is
Mail_close_all(R) ==
    CloseRedis([R EXCEPT
        !.objs = [i \in DOMAIN R.objs |->
                    IF i \in CachedIds(R)
                    THEN [R.objs[i] EXCEPT !.open = FALSE] ELSE R.objs[i]],
        !.clients = NoClients,
        !.order = <<>>])

\* postgres: the pools are closed, both maps are cleared
Postgres_close_all(R) ==
    [R EXCEPT
        !.objs = [i \in DOMAIN R.objs |->
                    IF i \in CachedIds(R)
                    THEN [R.objs[i] EXCEPT !.open = FALSE] ELSE R.objs[i]],
        !.clients = NoClients,
        !.order = <<>>,
        !.configs = NoConfigs]

close_all(ad, R) ==
    CASE ad = "genImage" -> GenImage_close_all(R)
      [] ad = "ai"       -> AI_close_all(R)
      [] ad = "mail"     -> Mail_close_all(R)
      [] ad = "postgres" -> Postgres_close_all(R)

\* the loop of close_all over self.clients.values() when releasing can
\* raise: `bad` are the tenants whose release raises, `part` tells whether
\* it is the close of the client (wrapper, pool) or of its provider client.
\* Nothing catches the exception: it ends the loop and leaves close_all
RECURSIVE CloseEach(_, _, _, _)
CloseEach(R, seq, bad, part) ==
    IF seq = <<>> THEN R
    ELSE LET t  == Head(seq)
             id == R.clients[t].client
             R1 == [R EXCEPT !.objs[id].open = FALSE]
         IN  IF t \in bad /\ part = "client" THEN Raise(R, "close")
             ELSE IF R.objs[id].provider /= "open"
             THEN CloseEach(R1, Tail(seq), bad, part)
             ELSE IF t \in bad /\ part = "provider" THEN Raise(R1, "close")
             ELSE CloseEach([R1 EXCEPT !.objs[id].provider = "closed"],
                            Tail(seq), bad, part)

\* close_all with such releases: the statements after the loop are reached
\* only when the loop ended without an exception
close_all_raising(ad, R, bad, part) ==
    LET R1 == CloseEach(R, R.order, bad, part) IN
    IF R1.failed /= "none" THEN R1 ELSE close_all(ad, R1)

\* ------------------------------------------------------ tool handlers
\* _get_provider_client(client_info, "llm"): the OpenRouter client of a
\* non-global tenant, if it has one
get_provider_client(entry) ==
    IF entry.config /= None /\ entry.config.tenant_id = "global" THEN FALSE
    ELSE "openrouter" \in entry.providers

\* the handler calls the provider client directly when there is one, the
\* wrapper method (which enters `async with self.semaphore`) otherwise
UsesGate(ad, entry) ==
    /\ entry.semaphore /= 0
    /\ ~(ad = "ai" /\ get_provider_client(entry))

\* Semaphore.acquire when a permit is free / Semaphore.release
sem_acquire(O, g) == [O EXCEPT ![g].permits = @ - 1]
sem_release(O, g) == [O EXCEPT ![g].permits = @ + 1]

\* a hand-written acquire/release pair with the release after the call,
\* outside any finally: an exception skips it
sem_exit_leak(O, g, outcome) ==
    IF outcome = "raise" THEN O ELSE sem_release(O, g)

\* leaving `async with self.semaphore`: __aexit__ releases on every way out
\* of the block (a returned result, a returned error envelope, an exception)
sem_exit(O, g, outcome) == sem_release(O, g)

Outcomes == {"ok", "error", "raise"}

IdleOp == [pc |-> "idle", tenant |-> "-", client |-> 0, gate |-> 0,
           cfg |-> None]

\* after get_client returned `entry`: straight to the outbound call, or
\* through the gate when the wrapper is used
EnterOp(ad, O, t, entry) ==
    IF ~UsesGate(ad, entry)
    THEN [objs |-> O,
          op |-> [pc |-> "outbound", tenant |-> t,
                  client |-> entry.client, gate |-> 0, cfg |-> None]]
    ELSE IF O[entry.semaphore].permits > 0
    THEN [objs |-> sem_acquire(O, entry.semaphore),
          op |-> [pc |-> "outbound", tenant |-> t,
                  client |-> entry.client, gate |-> entry.semaphore,
                  cfg |-> None]]
    ELSE [objs |-> O,
          op |-> [pc |-> "waiting", tenant |-> t,
                  client |-> entry.client, gate |-> entry.semaphore,
                  cfg |-> None]]

\* ------------------------------------------------------- observation
NoPrior == [op |-> "none", ok |-> FALSE, same_tenant |-> FALSE,
            same_client |-> FALSE, was_active |-> FALSE]

ClientOf(entry) == IF entry = NoEntry THEN 0 ELSE entry.client

\* what a caller (a test) sees of one call: the error raised or the client
\* returned, the number of clients constructed and of store reads made
\* during it, the sources as they were when it was made, and how it
\* relates to the call before it
Observe(op, t, cfg, R0, g) ==
    [op |-> op, tenant |-> t,
     raised  |-> g.raised,
     client  |-> ClientOf(g.result),
     hit     |-> IF t \in TenantIds THEN IsCached(R0, t) ELSE FALSE,
     built   |-> g.R.built,
     reads   |-> g.reads,
     changed |-> IF cfg = None THEN FALSE
                 ELSE R0.configs[t] /= None /\ R0.configs[t] /= cfg,
     stored  |-> IF t \in TenantIds THEN R0.store[t].kind ELSE "none",
     up      |-> storeUp,
     active  |-> IF op = "close"
                 THEN {u \in TenantIds : IsCached(R0, u)} ELSE {},
     prior   |-> [op |-> last.op,
                  ok |-> last.raised = "none",
                  same_tenant |-> last.tenant = t,
                  same_client |-> last.client = ClientOf(g.result),
                  was_active |-> t \in last.active]]

\* what the caller of a tool sees when its outbound call has ended
ObserveFinish(p, outcome) ==
    [op |-> "finish", tenant |-> ops[p].tenant,
     raised  |-> outcome,
     client  |-> ops[p].client,
     hit |-> FALSE, built |-> 0, reads |-> 0, changed |-> FALSE,
     stored |-> "none", up |-> storeUp, active |-> {},
     prior |-> NoPrior]

\* a closed client that neither the registry nor an operation refers to is
\* garbage: its slot is free again
Collect(O, C, P) ==
    [i \in DOMAIN O |->
        IF /\ ~O[i].free
           /\ ~O[i].open
           /\ O[i].provider /= "open"
           /\ \A t \in TenantIds : ClientOf(C[t]) /= i
           /\ \A p \in Ops : P[p].client /= i /\ P[p].gate /= i
        THEN FreeObj ELSE O[i]]

\* --------------------------------------------------------------- Init
\* what the store can hold for tenant id t when the process starts:
\* nothing, a value that is not a config, a config persisted earlier
StoreValues(ad, t) ==
    IF HasStore(ad)
    THEN {None, Malformed, model_dump_json(PersistedCfg(ad, t))}
    ELSE {None}

\* S: the tenant ids the store has records for
InitFor(S) ==
    /\ adapter \in Adapters
    /\ env \in [EnvNames -> {None} \cup EnvRecs(adapter)]
    /\ storeUp \in (IF HasStore(adapter) THEN BOOLEAN ELSE {TRUE})
    /\ store \in { f \in [TenantIds ->
                           UNION { StoreValues(adapter, t) : t \in TenantIds }] :
                     \A t \in TenantIds :
                        f[t] \in (IF t \in S THEN StoreValues(adapter, t)
                                  ELSE {None}) }
    /\ clients = NoClients
    /\ others = {}
    /\ configs = NoConfigs
    /\ redis_client = "None"
    /\ redis_initialized = FALSE
    /\ order = <<>>
    /\ objs = [i \in 1..MaxObjs |-> FreeObj]
    /\ ops = [p \in Ops |-> IdleOp]
    /\ last = [op |-> "none", tenant |-> "-", raised |-> "none",
               client |-> 0, hit |-> FALSE, built |-> 0, reads |-> 0,
               changed |-> FALSE, stored |-> "none", up |-> storeUp,
               active |-> {}, prior |-> NoPrior]

\* ------------------------------------------------------------ actions
SetReg(R) ==
    /\ ~R.full
    /\ clients' = R.clients
    /\ configs' = R.configs
    /\ redis_client' = R.redis_client
    /\ redis_initialized' = R.redis_initialized
    /\ order' = R.order
    /\ store' = R.store

Returned(R) ==
    [R |-> R,
     raised |-> IF R.failed /= "none" THEN R.failed
                ELSE IF R.exc THEN "store" ELSE "none",
     result |-> NoEntry, reads |-> 0]

\* a caller registers a tenant (the *_register_tenant tools)
RegisterTenant(t, cfg) ==
    /\ LET R == register_tenant(adapter, Reg, cfg) IN
       /\ SetReg(R)
       /\ objs' = Collect(R.objs, R.clients, ops)
       /\ last' = Observe("register", t, cfg, Reg, Returned(R))
    /\ UNCHANGED <<others, adapter, env, storeUp, ops>>

\* a caller asks for a tenant's client without issuing an operation
GetClient(t) ==
    /\ LET g == get_client(adapter, Reg, t) IN
       /\ SetReg(g.R)
       /\ objs' = Collect(g.R.objs, g.R.clients, ops)
       /\ last' = Observe("get", t, None, Reg, g)
    /\ UNCHANGED <<others, adapter, env, storeUp, ops>>

\* a tool is invoked for tenant t: get_client, then the operation starts
\* (a new invocation takes the lowest idle slot)
ToolStart(p, t) ==
    /\ ops[p].pc = "idle"
    /\ \A q \in Ops : q < p => ops[q].pc /= "idle"
    /\ LET g == get_client(adapter, Reg, t) IN
       /\ SetReg(g.R)
       /\ last' = Observe("get", t, None, Reg, g)
       /\ IF g.raised /= "none"
          THEN /\ objs' = Collect(g.R.objs, g.R.clients, ops)
               /\ ops' = ops
          ELSE LET e == EnterOp(adapter, g.R.objs, t, g.result) IN
               /\ ops' = [ops EXCEPT ![p] = e.op]
               /\ objs' = Collect(e.objs, g.R.clients, ops')
    /\ UNCHANGED <<others, adapter, env, storeUp>>

\* a waiting operation gets a permit
Acquire(p) ==
    /\ ops[p].pc = "waiting"
    /\ objs[ops[p].gate].permits > 0
    /\ objs' = sem_acquire(objs, ops[p].gate)
    /\ ops' = [ops EXCEPT ![p].pc = "outbound"]
    /\ UNCHANGED <<others, adapter, env, storeUp, store, clients, configs,
                   redis_client, redis_initialized, order, last>>

\* a handler that drops the tenant's entry when its outbound call raised
ToolFinish_evict(p, outcome) ==
    /\ ops[p].pc = "outbound"
    /\ ops' = [ops EXCEPT ![p] = IdleOp]
    /\ clients' = IF outcome = "raise"
                  THEN [clients EXCEPT ![ops[p].tenant] = NoEntry]
                  ELSE clients
    /\ objs' = Collect(IF ops[p].gate /= 0
                       THEN sem_exit(objs, ops[p].gate, outcome) ELSE objs,
                       clients', ops')
    /\ last' = ObserveFinish(p, outcome)
    /\ UNCHANGED <<others, adapter, env, storeUp, store, configs,
                   redis_client, redis_initialized, order>>

\* the outbound call of an operation ends
ToolFinish(p, outcome) ==
    /\ ops[p].pc = "outbound"
    /\ ops' = [ops EXCEPT ![p] = IdleOp]
    /\ objs' = Collect(IF ops[p].gate /= 0
                       THEN sem_exit(objs, ops[p].gate, outcome) ELSE objs,
                       clients, ops')
    /\ last' = ObserveFinish(p, outcome)
    /\ UNCHANGED <<others, adapter, env, storeUp, store, clients, configs,
                   redis_client, redis_initialized, order>>

\* startup hook (postgres has none)
Initialize ==
    /\ adapter /= "postgres"
    /\ LET R == GenImage_initialize(adapter, Reg) IN
       /\ SetReg(R)
       /\ objs' = Collect(R.objs, R.clients, ops)
       /\ last' = Observe("init", "-", None, Reg, Returned(R))
    /\ UNCHANGED <<others, adapter, env, storeUp, ops>>

\* shutdown hook
CloseAll ==
    /\ LET R == close_all(adapter, Reg) IN
       /\ SetReg(R)
       /\ objs' = Collect(R.objs, R.clients, ops)
       /\ last' = Observe("close", "-", None, Reg, Returned(R))
    /\ UNCHANGED <<others, adapter, env, storeUp, ops>>

\* the Redis server becomes unreachable / reachable again
StoreFlip ==
    /\ HasStore(adapter)
    /\ storeUp' = ~storeUp
    /\ UNCHANGED <<others, adapter, env, store, clients, configs, redis_client,
                   redis_initialized, order, objs, ops, last>>

\* the tenant ids the callers of one run name
Callers == {"a"}

Init == InitFor(Callers)

\* the registry as its callers drive it
Next ==
    \/ \E t \in Callers : \E cfg \in RegConfigs(adapter, t) :
          RegisterTenant(t, cfg)
    \/ \E t \in Callers : GetClient(t)
    \/ Initialize
    \/ CloseAll
    \/ StoreFlip

Spec == Init /\ [][Next]_vars

\* the registry under concurrent tool invocations
NextTools ==
    \/ \E t \in Callers : \E cfg \in RegConfigs(adapter, t) :
          RegisterTenant(t, cfg)
    \/ \E p \in Ops : \E t \in Callers : ToolStart(p, t)
    \/ \E p \in Ops : Acquire(p)
    \/ \E p \in Ops : \E o \in Outcomes : ToolFinish(p, o)
    \/ CloseAll

\* (the adapters with a gate, started with a reachable, empty store)
InitTools ==
    /\ Init
    /\ HasGate(adapter)
    /\ storeUp
    /\ \A t \in TenantIds : store[t] = None

SpecTools == InitTools /\ [][NextTools]_vars

\* (the genImage registry alone under concurrent tool invocations)
InitGate == InitTools /\ adapter = "genImage"

SpecGate == InitGate /\ [][NextTools]_vars

\* ---------------------------------------------- calls that can fail
\* a config whose client cannot be constructed: a negative concurrency
\* limit where there is a gate, fields the constructor rejects otherwise
BadConfigs(ad, t) ==
    { IF HasGate(ad) THEN TenantConfig(t, "k1", 0 - 1, FALSE)
      ELSE TenantConfig(t, "bad", 0, FALSE) }

\* the configs registered in the runs with failures: one that constructs
\* (with a provider key for ai) and one that does not
FaultConfigs(ad, t) ==
    { TenantConfig(t, "k1", IF HasGate(ad) THEN 1 ELSE 0, ad = "ai") }
       \cup BadConfigs(ad, t)

\* environment variables that give such a config (_MAX_CONCURRENT=-1)
BadEnvRecs(ad) ==
    { [kind |-> "env", key |-> c.key,
       max_concurrent |-> c.max_concurrent_requests,
       openrouter_api_key |-> FALSE] : c \in BadConfigs(ad, "a") }

\* what the store holds when these runs start: nothing or a persisted
\* config for tenant "a", nothing or a record that deserializes to a config
\* of that kind for tenant "A"
FaultStoreValues(ad, t) ==
    IF ~HasStore(ad) THEN {None}
    ELSE IF t = "a" THEN {None, model_dump_json(PersistedCfg(ad, t))}
    ELSE {None} \cup { model_dump_json(c) : c \in BadConfigs(ad, t) }

InitFaults ==
    /\ adapter \in Adapters
    /\ env \in [EnvNames -> {None} \cup EnvRecs(adapter)
                                  \cup BadEnvRecs(adapter)]
    /\ storeUp = TRUE
    /\ store \in { f \in [TenantIds ->
                           UNION { FaultStoreValues(adapter, t) :
                                      t \in TenantIds }] :
                     \A t \in TenantIds :
                        f[t] \in FaultStoreValues(adapter, t) }
    /\ clients = NoClients
    /\ others = {}
    /\ configs = NoConfigs
    /\ redis_client = "None"
    /\ redis_initialized = FALSE
    /\ order = <<>>
    /\ objs = [i \in 1..MaxObjs |-> FreeObj]
    /\ ops = [p \in Ops |-> IdleOp]
    /\ last = [op |-> "none", tenant |-> "-", raised |-> "none",
               client |-> 0, hit |-> FALSE, built |-> 0, reads |-> 0,
               changed |-> FALSE, stored |-> "none", up |-> storeUp,
               active |-> {}, prior |-> NoPrior]

\* the releases that raise during one close_all: none, or those of one
\* tenant's client, or (ai) those of one tenant's provider client
CloseFaults(ad) ==
    { [bad |-> {}, part |-> "client"] }
       \cup { [bad |-> {t}, part |-> p] :
                t \in TenantIds,
                p \in IF ad = "ai" THEN {"client", "provider"}
                      ELSE {"client"} }

\* shutdown hook while releasing the clients of `bad` raises
CloseAllRaising(bad, part) ==
    /\ LET R == close_all_raising(adapter, Reg, bad, part) IN
       /\ SetReg(R)
       /\ objs' = Collect(R.objs, R.clients, ops)
       /\ last' = Observe("close", "-", None, Reg, Returned(R))
    /\ UNCHANGED <<others, adapter, env, storeUp, ops>>

\* startup, registration and shutdown of a registry of two tenants with
\* configs that do not construct and releases that raise
NextFaults ==
    \/ \E t \in TenantIds : \E cfg \in FaultConfigs(adapter, t) :
          RegisterTenant(t, cfg)
    \/ Initialize
    \/ \E f \in CloseFaults(adapter) : CloseAllRaising(f.bad, f.part)

SpecFaults == InitFaults /\ [][NextFaults]_vars

\* the genImage registry under tool invocations, get_client calls and
\* store outages
NextLife ==
    \/ \E p \in Ops : \E t \in Callers : ToolStart(p, t)
    \/ \E p \in Ops : Acquire(p)
    \/ \E p \in Ops : \E o \in Outcomes : ToolFinish(p, o)
    \/ \E t \in Callers : GetClient(t)
    \/ StoreFlip
    \/ CloseAll

SpecLife == InitGate /\ [][NextLife]_vars

\* two tenants of the genImage registry, each registered, resolved and
\* used by tool invocations
NextPair ==
    \/ \E t \in TenantIds : \E cfg \in RegConfigs(adapter, t) :
          RegisterTenant(t, cfg)
    \/ \E t \in TenantIds : GetClient(t)
    \/ \E p \in Ops : \E t \in TenantIds : ToolStart(p, t)
    \/ \E p \in Ops : Acquire(p)
    \/ \E p \in Ops : \E o \in Outcomes : ToolFinish(p, o)

SpecPair == InitGate /\ [][NextPair]_vars

\* a deployment whose one tenant id has an upper-case letter: its callers,
\* its store records and its environment variables all name "A"
CaseIds == {"A"}

InitCase == InitFor(CaseIds)

NextCase ==
    \/ \E t \in CaseIds : \E cfg \in RegConfigs(adapter, t) :
          RegisterTenant(t, cfg)
    \/ \E t \in CaseIds : GetClient(t)
    \/ Initialize
    \/ CloseAll

SpecCase == InitCase /\ [][NextCase]_vars

\* ------------------------------------------------ a shared Redis
\* the registries of the other adapters that keep their tenants in Redis
OtherAdapters == { ad \in Adapters \ {adapter} : HasStore(ad) }

\* the config a tenant id has in another adapter
OtherConfig(t) == TenantConfig(t, "kf", 1, FALSE)

\* register_tenant(OtherConfig(t)) in the registry of adapter ad, which
\* uses the same Redis database: its _save_to_redis sets its key
OtherRegister(ad, t) ==
    /\ storeUp
    /\ others' = { r \in others : r.key /= redis_key(ad, t) }
                 \cup { [key |-> redis_key(ad, t),
                         value |-> model_dump_json(OtherConfig(t))] }
    /\ UNCHANGED <<adapter, env, storeUp, store, clients, configs,
                   redis_client, redis_initialized, order, objs, ops, last>>

\* the mail registry next to the registries of the other adapters
NextShared ==
    \/ \E ad \in OtherAdapters : \E t \in Callers : OtherRegister(ad, t)
    \/ \E t \in Callers : \E cfg \in RegConfigs(adapter, t) :
          RegisterTenant(t, cfg)
    \/ \E t \in Callers : GetClient(t)
    \/ Initialize
    \/ CloseAll

InitShared == Init /\ adapter = "mail"

SpecShared == InitShared /\ [][NextShared]_vars

\* ------------------------------------------- ai: provider routing
Providers == {"openrouter", "elevenlabs", "openai"}
RouteIds  == {"global", "a"}

\* an AITenantConfig with the provider API keys of `keys` set
RouteConfig(t, keys) ==
    [kind |-> "cfg", tenant_id |-> t, key |-> "k1",
     max_concurrent_requests |-> 1,
     openrouter_api_key |-> "openrouter" \in keys,
     elevenlabs_api_key |-> "elevenlabs" \in keys,
     openai_api_key |-> "openai" \in keys]

\* the `providers` dict AITenantManager.register_tenant builds
AI_providers(cfg) ==
    IF cfg.tenant_id = "global" THEN {}
    ELSE (IF cfg.openrouter_api_key THEN {"openrouter"} ELSE {})
         \cup (IF cfg.elevenlabs_api_key THEN {"elevenlabs"} ELSE {})
         \cup (IF cfg.openai_api_key THEN {"openai"} ELSE {})

\* the service type each tool handler passes to _get_provider_client
\* ("none": the handler calls the wrapper without asking)
ServiceType ==
    [ai_list_models |-> "llm", ai_chat_completion |-> "llm",
     ai_text_completion |-> "llm", ai_create_embeddings |-> "embeddings",
     ai_audio_speech_to_text |-> "stt", ai_audio_text_to_speech |-> "tts",
     ai_create_image |-> "none", ai_get_mcp_tools |-> "none"]

Tools == DOMAIN ServiceType

\* a _get_provider_client that sends tts to OpenAI and embeddings to
\* Eleven Labs
get_provider_client_swapped(entry, service_type) ==
    IF entry.config /= None /\ entry.config.tenant_id = "global" THEN "None"
    ELSE IF service_type \in {"llm", "stt"}
    THEN IF "openrouter" \in entry.providers THEN "openrouter" ELSE "None"
    ELSE IF service_type = "tts"
    THEN IF "openai" \in entry.providers THEN "openai" ELSE "None"
    ELSE IF service_type = "embeddings"
    THEN IF "elevenlabs" \in entry.providers THEN "elevenlabs" ELSE "None"
    ELSE "None"

\* _get_provider_client: the provider client of the entry for a service
\* type ("None": use the main client)
get_provider_client_for(entry, service_type) ==
    IF entry.config /= None /\ entry.config.tenant_id = "global" THEN "None"
    ELSE IF service_type \in {"llm", "stt"}
    THEN IF "openrouter" \in entry.providers THEN "openrouter" ELSE "None"
    ELSE IF service_type = "tts"
    THEN IF "elevenlabs" \in entry.providers THEN "elevenlabs" ELSE "None"
    ELSE IF service_type = "embeddings"
    THEN IF "openai" \in entry.providers THEN "openai" ELSE "None"
    ELSE "None"

\* the client a tool handler sends its request with
UsedClient(entry, tool) ==
    LET provider_client ==
            IF ServiceType[tool] = "none" THEN "None"
            ELSE get_provider_client_for(entry, ServiceType[tool])
    IN  IF provider_client /= "None" THEN provider_client ELSE "main"

\* ai_register_tenant for a config with the given provider keys
RouteRegister(t, keys) ==
    /\ clients' = [clients EXCEPT ![t] =
                     [kind |-> "entry", client |-> 1,
                      config |-> RouteConfig(t, keys), semaphore |-> 1,
                      providers |-> AI_providers(RouteConfig(t, keys))]]
    /\ configs' = [configs EXCEPT ![t] = RouteConfig(t, keys)]
    /\ last' = [op |-> "register", tenant |-> t, tool |-> "-",
                keys |-> keys, used |-> "-"]
    /\ UNCHANGED <<others, adapter, env, storeUp, store, redis_client,
                   redis_initialized, order, objs, ops>>

\* a tool of the ai server is invoked for a registered tenant
RouteTool(t, tool) ==
    /\ clients[t] /= NoEntry
    /\ last' = [op |-> "tool", tenant |-> t, tool |-> tool,
                keys |-> { k \in Providers :
                             \/ k = "openrouter" /\ configs[t].openrouter_api_key
                             \/ k = "elevenlabs" /\ configs[t].elevenlabs_api_key
                             \/ k = "openai" /\ configs[t].openai_api_key },
                used |-> UsedClient(clients[t], tool)]
    /\ UNCHANGED <<others, adapter, env, storeUp, store, clients, configs,
                   redis_client, redis_initialized, order, objs, ops>>

InitRoute ==
    /\ adapter = "ai"
    /\ env = [n \in EnvNames |-> None]
    /\ storeUp = TRUE
    /\ store = [t \in RouteIds |-> None]
    /\ others = {}
    /\ clients = [t \in RouteIds |-> NoEntry]
    /\ configs = [t \in RouteIds |-> None]
    /\ redis_client = "None"
    /\ redis_initialized = FALSE
    /\ order = <<>>
    /\ objs = [i \in 1..MaxObjs |-> FreeObj]
    /\ ops = [p \in Ops |-> IdleOp]
    /\ last = [op |-> "none", tenant |-> "-", tool |-> "-", keys |-> {},
               used |-> "-"]

NextRoute ==
    \/ \E t \in RouteIds : \E keys \in SUBSET Providers :
          RouteRegister(t, keys)
    \/ \E t \in RouteIds : \E tool \in Tools : RouteTool(t, tool)

SpecRoute == InitRoute /\ [][NextRoute]_vars

\* ------------------------------------------------ the gate under fairness
\* the configs register_tenant accepts: asyncio.Semaphore takes every
\* value that is not negative, and the config model sets no lower limit
GateConfigs(t) ==
    { TenantConfig(t, "k1", n, FALSE) : n \in 0..MaxConc }

NextLive ==
    \/ \E t \in Callers : \E cfg \in GateConfigs(t) : RegisterTenant(t, cfg)
    \/ \E p \in Ops : \E t \in Callers : ToolStart(p, t)
    \/ \E p \in Ops : Acquire(p)
    \/ \E p \in Ops : \E o \in Outcomes : ToolFinish(p, o)

\* every outbound call ends, and a waiter whose gate has a permit again
\* and again gets one
Fairness ==
    /\ \A p \in Ops : WF_vars(\E o \in Outcomes : ToolFinish(p, o))
    /\ \A p \in Ops : SF_vars(Acquire(p))

SpecLive == InitGate /\ [][NextLive]_vars /\ Fairness

\* ------------------------------------- register_tenant of genImage in steps
\* a register_tenant(cfg) coroutine builds and stores the entry and is
\* suspended in `await self._save_to_redis(config)`
SaveBegin(p, t, cfg) ==
    /\ ops[p].pc = "idle"
    /\ \A q \in Ops : q < p => ops[q].pc /= "idle"
    /\ LET B == GenImage_build(Reg, cfg) IN
       /\ B.failed = "none"
       /\ SetReg(B)
       /\ objs' = B.objs
    /\ ops' = [ops EXCEPT ![p] = [pc |-> "saving", tenant |-> t,
                                  client |-> 0, gate |-> 0, cfg |-> cfg]]
    /\ UNCHANGED <<others, adapter, env, storeUp, last>>

\* the coroutine is resumed: its config is written and it returns
SaveEnd(p) ==
    /\ ops[p].pc = "saving"
    /\ ops' = [ops EXCEPT ![p] = IdleOp]
    /\ LET R == Persist(Reg, ops[p].cfg) IN
       /\ SetReg(R)
       /\ objs' = Collect(R.objs, R.clients, ops')
       /\ last' = Observe("register", ops[p].tenant, ops[p].cfg, Reg,
                          Returned(R))
    /\ UNCHANGED <<others, adapter, env, storeUp>>

\* concurrent register_tenant calls on the genImage registry, the store
\* reachable throughout
NextSave ==
    \/ \E p \in Ops : \E t \in Callers : \E cfg \in RegConfigs(adapter, t) :
          SaveBegin(p, t, cfg)
    \/ \E p \in Ops : SaveEnd(p)
    \/ \E t \in Callers : GetClient(t)
    \/ CloseAll

InitSave == Init /\ adapter = "genImage" /\ storeUp

SpecSave == InitSave /\ [][NextSave]_vars

\* ------------------------------------------------ get_client in steps
\* a get_client(t) coroutine finds t not in self.clients and is suspended
\* in the store access of _load_from_redis (the first connection or a get
\* on the open connection)
GetBegin(p, t) ==
    /\ ops[p].pc = "idle"
    /\ \A q \in Ops : q < p => ops[q].pc /= "idle"
    /\ ~IsCached(Reg, t)
    /\ redis_client = "conn" \/ ~redis_initialized
    /\ ops' = [ops EXCEPT ![p] = [pc |-> "resolving", tenant |-> t,
                                  client |-> 0, gate |-> 0, cfg |-> None]]
    /\ UNCHANGED <<others, adapter, env, storeUp, store, clients, configs,
                   redis_client, redis_initialized, order, objs, last>>

\* the coroutine is resumed: it goes on with the config it finds,
\* registers it and returns self.clients[t]
GetEnd(p) ==
    /\ ops[p].pc = "resolving"
    /\ ops' = [ops EXCEPT ![p] = IdleOp]
    /\ LET g == GenImage_resolve(adapter, Reg, ops[p].tenant) IN
       /\ SetReg(g.R)
       /\ objs' = Collect(g.R.objs, g.R.clients, ops')
       /\ last' = Observe("get", ops[p].tenant, None, Reg, g)
    /\ UNCHANGED <<others, adapter, env, storeUp>>

\* concurrent get_client calls on the genImage registry
NextRace ==
    \/ \E p \in Ops : \E t \in Callers : GetBegin(p, t)
    \/ \E p \in Ops : GetEnd(p)
    \/ CloseAll
    \/ StoreFlip

InitRace == Init /\ adapter = "genImage" /\ storeUp

SpecRace == InitRace /\ [][NextRace]_vars

\* ------------------------------------------- register_tenant in steps
\* a register_tenant(cfg) coroutine of postgres runs up to its first await
\* (a new coroutine takes the lowest idle slot)
RegisterBegin(p, t, cfg) ==
    /\ ops[p].pc = "idle"
    /\ \A q \in Ops : q < p => ops[q].pc /= "idle"
    /\ LET R == Postgres_close_existing(Reg, t) IN
       /\ SetReg(R)
       /\ objs' = R.objs
    /\ ops' = [ops EXCEPT ![p] = [pc |-> "opening", tenant |-> t,
                                  client |-> 0, gate |-> 0, cfg |-> cfg]]
    /\ UNCHANGED <<others, adapter, env, storeUp, last>>

\* the coroutine is resumed, builds its pool and returns
RegisterEnd(p) ==
    /\ ops[p].pc = "opening"
    /\ ops' = [ops EXCEPT ![p] = IdleOp]
    /\ LET R == Postgres_open_pool(Reg, ops[p].cfg) IN
       /\ SetReg(R)
       /\ objs' = Collect(R.objs, R.clients, ops')
       /\ last' = Observe("register", ops[p].tenant, ops[p].cfg, Reg,
                          Returned(R))
    /\ UNCHANGED <<others, adapter, env, storeUp>>

\* get_pool calls interleaved with register_tenant coroutines
NextAsync ==
    \/ \E p \in Ops : \E t \in Callers : \E cfg \in RegConfigs(adapter, t) :
          RegisterBegin(p, t, cfg)
    \/ \E p \in Ops : RegisterEnd(p)
    \/ \E t \in Callers : GetClient(t)
    \/ CloseAll

InitAsync == Init /\ adapter = "postgres"

SpecAsync == InitAsync /\ [][NextAsync]_vars

\* =============================================================== claims
\* the operations of tenant t whose outbound call is in flight
InFlight(P, t) ==
    Cardinality({p \in Ops : P[p].pc = "outbound" /\ P[p].tenant = t})

\* the operations that hold a permit of gate i
Holders(i) ==
    Cardinality({p \in Ops : ops[p].pc = "outbound" /\ ops[p].gate = i})

\* C1: when an entry for t is cached, get_client(t) returns that entry,
\* constructs no client and reads no store; so two successive
\* get_client(t) calls, the first of which returned an entry, return the
\* same entry, and the second is served from the cache
C1_IdempotentResolution ==
    /\ \A t \in TenantIds :
          IsCached(Reg, t) =>
             LET g == get_client(adapter, Reg, t) IN
             /\ g.raised = "none"
             /\ g.result = clients[t]
             /\ g.reads = 0
             /\ g.R = Reg
    /\ (last.op = "get" /\ last.hit) =>
          /\ last.raised = "none"
          /\ last.built = 0
          /\ last.reads = 0
          /\ last.client = ClientOf(clients[last.tenant])
    /\ (last.op = "get" /\ last.prior.op = "get" /\ last.prior.same_tenant
          /\ last.prior.ok) =>
          /\ last.hit
          /\ last.prior.same_client
          /\ last.built = 0
          /\ last.reads = 0

C1_Witness ==
    /\ last.op = "get" /\ last.prior.op = "get" /\ last.prior.same_tenant
    /\ last.prior.ok /\ last.hit /\ last.prior.same_client
    /\ last.client /= 0

\* C2: after initialize(), every tenant id that has both a persisted config
\* and an environment-derived one is active with the environment-derived
\* config
C2_EnvWinsAfterInitialize ==
    last.op = "init" =>
       \A t \in EnvScan :
          store[t].kind = "json" =>
             configs[t] = load_tenant_from_env(adapter, t)

\* C3: get_client(t) for a tenant with no cached entry, no persisted config
\* and no environment variables raises the tenant-not-found error and
\* returns no client
C3_NotFound ==
    (/\ last.op = "get"
     /\ ~last.hit
     /\ last.stored = "none"
     /\ env[upper(last.tenant)] = None) =>
        last.raised = "notfound" /\ last.client = 0

\* C4: an operation of a tenant whose config has max_concurrent_requests N
\* starts its outbound call only when fewer than N operations of that
\* tenant are in flight; otherwise it waits at the gate
C4_BlocksAtGate ==
    [][ \A p \in Ops :
          (/\ ops[p].pc /= "outbound"
           /\ ops'[p].pc = "outbound"
           /\ configs'[ops'[p].tenant] /= None) =>
              InFlight(ops, ops'[p].tenant)
                 < configs'[ops'[p].tenant].max_concurrent_requests ]_vars

\* C5: in every reachable state the number of outbound operations in
\* flight for a tenant is at most the max_concurrent_requests of its
\* currently registered config
C5_InFlightBound ==
    \A t \in TenantIds :
       configs[t] /= None =>
          InFlight(ops, t) <= configs[t].max_concurrent_requests

\* C6: every operation whose outbound call is in flight holds a permit of
\* a gate, the operations routed to a provider client included
C6_GateBeforeCall ==
    \A p \in Ops :
       ops[p].pc = "outbound" =>
          /\ ops[p].gate /= 0
          /\ ~objs[ops[p].gate].free

\* C7: the permits of a gate and the operations holding one add up to the
\* gate's size, whatever way the operations ended; a cached tenant with no
\* operation in flight has all permits of its gate available
C7_ReleasedExactlyOnce ==
    /\ \A i \in DOMAIN objs :
          ~objs[i].free =>
             objs[i].permits + Holders(i)
                = objs[i].cfg.max_concurrent_requests
    /\ \A t \in TenantIds :
          (IsCached(Reg, t) /\ InFlight(ops, t) = 0) =>
             objs[clients[t].semaphore].permits
                = clients[t].config.max_concurrent_requests

C7_Witness ==
    /\ last.op = "finish" /\ last.raised = "raise"
    /\ \E t \in TenantIds :
          /\ IsCached(Reg, t)
          /\ clients[t].client = last.client
          /\ UsesGate(adapter, clients[t])
          /\ InFlight(ops, t) = 0
          /\ objs[clients[t].semaphore].permits
                = clients[t].config.max_concurrent_requests

\* C8: no call raises an exception of a store access; register_tenant
\* leaves the tenant registered in memory whatever the store does; a
\* get_client cache miss with the store unreachable or holding a value that
\* does not deserialize returns a client built from the environment when
\* the environment configures the tenant
C8_StoreDegradation ==
    /\ last.raised /= "store"
    /\ last.op = "register" =>
          /\ last.raised = "none"
          /\ last.built = 1
          /\ IsCached(Reg, last.tenant)
          /\ configs[last.tenant] /= None
          /\ objs[clients[last.tenant].client].open
          /\ objs[clients[last.tenant].client].cfg = configs[last.tenant]
    /\ (/\ last.op = "get"
        /\ ~last.hit
        /\ (~last.up \/ last.stored = "malformed")
        /\ env[upper(last.tenant)] /= None) =>
          /\ last.raised = "none"
          /\ last.client /= 0
          /\ last.client = ClientOf(clients[last.tenant])
          /\ configs[last.tenant] = load_tenant_from_env(adapter, last.tenant)

C8_Witness ==
    /\ last.op = "get" /\ ~last.hit /\ last.reads = 1
    /\ (~last.up \/ last.stored = "malformed")
    /\ env[upper(last.tenant)] /= None
    /\ last.raised = "none" /\ last.client /= 0

\* C9: after close_all() no tenant is cached, and get_client(t) for a
\* tenant that was cached before it resolves like a first call: from the
\* store when the store holds a config for t and is reachable, else from
\* the environment when it configures t, and it raises tenant-not-found
\* when neither holds anything for t
C9_CloseThenResolve ==
    /\ last.op = "close" => clients = NoClients
    /\ (last.op = "get" /\ last.prior.op = "close"
          /\ last.prior.was_active) =>
          /\ ~last.hit
          /\ (last.up /\ last.stored = "json") =>
                /\ last.raised = "none"
                /\ configs[last.tenant] = parse_json(store[last.tenant]).cfg
                /\ last.reads = 1
          /\ (~(last.up /\ last.stored = "json")
                /\ env[upper(last.tenant)] /= None) =>
                /\ last.raised = "none"
                /\ configs[last.tenant]
                      = load_tenant_from_env(adapter, last.tenant)
          /\ (last.stored = "none" /\ env[upper(last.tenant)] = None) =>
                last.raised = "notfound"

\* what register_tenant(cfg) leaves for cfg.tenant_id in registry R2 made
\* from R: the config, an entry with a newly constructed open client made
\* from cfg, a gate of cfg's size, the provider clients cfg asks for; and
\* get_client returns that entry
BuiltFrom(ad, R, R2, cfg) ==
    LET t == cfg.tenant_id
        e == R2.clients[t]
    IN  /\ R2.configs[t] = cfg
        /\ e /= NoEntry
        /\ R.objs[e.client].free
        /\ R.clients[t] /= NoEntry => e.client /= R.clients[t].client
        /\ R2.objs[e.client].open
        /\ R2.objs[e.client].cfg = cfg
        /\ HasGate(ad) =>
              /\ e.config = cfg
              /\ e.semaphore = e.client
              /\ R2.objs[e.semaphore].permits = cfg.max_concurrent_requests
        /\ ad = "ai" => ("openrouter" \in e.providers) = cfg.openrouter_api_key
        /\ get_client(ad, R2, t).result = e
        /\ get_client(ad, R2, t).R = R2

\* C10: register_tenant(c2) on a registry that holds tenant_id with another
\* config c1 leaves config c2 and an entry whose client and gate are built
\* from c2, and get_client returns that entry
C10_ReRegistrationReplaces ==
    /\ \A t \in Callers : \A c2 \in RegConfigs(adapter, t) :
          LET R2 == register_tenant(adapter, Reg, c2) IN
          ~R2.full => BuiltFrom(adapter, Reg, R2, c2)
    /\ last.op = "register" =>
          /\ last.built = 1
          /\ IsCached(Reg, last.tenant)
          /\ objs[clients[last.tenant].client].cfg = configs[last.tenant]
          /\ HasGate(adapter) =>
                clients[last.tenant].config = configs[last.tenant]

C10_Witness ==
    /\ last.op = "register" /\ last.changed
    /\ last.prior.op = "register" /\ last.prior.same_tenant
    /\ IsCached(Reg, last.tenant)
    /\ objs[clients[last.tenant].client].cfg = configs[last.tenant]

\* C12: every constructed client, pool or provider client that is still
\* open is the one the in-memory map holds for its tenant (what a
\* re-registration replaced has been closed)
C12_OldReleased ==
    \A i \in DOMAIN objs :
       (~objs[i].free /\ (objs[i].open \/ objs[i].provider = "open")) =>
          \E t \in TenantIds : IsCached(Reg, t) /\ clients[t].client = i

\* C14: an initialize() that follows close_all() leaves the store
\* connection established when the store is reachable, and an open
\* in-memory entry for every tenant the reachable store holds a config of
\* and for every tenant the environment scan finds
C14_InitializeAfterClose ==
    (last.op = "init" /\ last.prior.op = "close") =>
       /\ last.up => redis_client = "conn"
       /\ \A t \in TenantIds :
             ((last.up /\ store[t].kind = "json") \/ t \in EnvScan) =>
                 /\ IsCached(Reg, t)
                 /\ objs[clients[t].client].open

\* C16: a get_client(t) cache miss with the store reachable and holding a
\* config for t that deserializes registers that config; whatever it
\* registers is the persisted config or the environment-derived one, and
\* the cached client is built from it
C16_PersistedFirst ==
    [][ \A t \in Callers :
          (GetClient(t) /\ ~IsCached(Reg, t)) =>
             /\ (storeUp /\ store[t].kind = "json") =>
                   /\ last'.raised = "none"
                   /\ configs'[t] = parse_json(store[t]).cfg
             /\ last'.raised = "none" =>
                   /\ configs'[t] \in
                         ({parse_json(store[t]).cfg,
                           load_tenant_from_env(adapter, t)} \ {None})
                   /\ objs'[clients'[t].client].cfg = configs'[t] ]_vars

\* C18: in a registry with a store, after a register_tenant(c) that
\* succeeded with the store reachable the store holds under the tenant's key a record that deserializes to c,
\* and while the store stays reachable get_client after close_all()
\* rebuilds an entry with config c
C18_PersistRoundTrip ==
    (/\ HasStore(adapter)
     /\ last.op = "register" /\ last.raised = "none" /\ last.up) =>
       /\ store[last.tenant].kind = "json"
       /\ parse_json(store[last.tenant]).cfg = configs[last.tenant]
       /\ storeUp =>
             get_client(adapter, close_all(adapter, Reg), last.tenant)
                .R.configs[last.tenant] = configs[last.tenant]

\* a config the client factory accepts
Constructs(cfg) == ~SemaphoreRaises(cfg) /\ ~ClientRaises(cfg)

\* C11: a register_tenant(config) that raises leaves the tenant's entry,
\* config and store record as they were, and the client the tenant had
\* before the call open
C11_FailedRegisterUntouched ==
    [][ \A t \in TenantIds : \A cfg \in FaultConfigs(adapter, t) :
          (RegisterTenant(t, cfg) /\ last'.raised /= "none") =>
             /\ clients'[t] = clients[t]
             /\ configs'[t] = configs[t]
             /\ store'[t] = store[t]
             /\ IsCached(Reg, t) =>
                   /\ ~objs'[clients[t].client].free
                   /\ objs'[clients[t].client].open ]_vars

\* C13: a close_all() during which the release of a cached tenant's client
\* or provider client raises still closes the client of every other cached
\* tenant, clears the in-memory map and the config cache and releases the
\* store connection
C13_CloseAllBestEffort ==
    [][ \A f \in CloseFaults(adapter) :
          (/\ CloseAllRaising(f.bad, f.part)
           /\ \E t \in f.bad : IsCached(Reg, t)) =>
             /\ clients' = NoClients
             /\ configs' = NoConfigs
             /\ redis_client' = "None"
             /\ \A u \in TenantIds \ f.bad :
                   IsCached(Reg, u) => ~objs'[clients[u].client].open ]_vars

\* C15: initialize() does not raise, and afterwards every tenant that the
\* connected store holds a constructible config of, and every tenant of
\* the environment scan whose config is constructible, is in the map
C15_InitializeSkipsFailures ==
    last.op = "init" =>
       /\ last.raised = "none"
       /\ \A t \in TenantIds :
             (\/ /\ redis_client = "conn"
                 /\ store[t].kind = "json"
                 /\ Constructs(parse_json(store[t]).cfg)
              \/ /\ t \in EnvScan
                 /\ Constructs(load_tenant_from_env(adapter, t))) =>
                IsCached(Reg, t)

\* C17: the entry a get_pool / get_client call returns holds a constructed
\* pool or client that the registry has not closed, whatever
\* register_tenant coroutines of that tenant are under way
C17_ReturnedEntryUsable ==
    [][ \A t \in TenantIds :
          (GetClient(t) /\ last'.raised = "none") =>
             /\ last'.client /= 0
             /\ ~objs'[last'.client].free
             /\ objs'[last'.client].open ]_vars

C20_TenantsIndependent ==
    [][ \A t \in TenantIds :
          /\ \A u \in TenantIds \ {t} :
                (\/ \E cfg \in RegConfigs(adapter, t) : RegisterTenant(t, cfg)
                 \/ GetClient(t)
                 \/ \E p \in Ops : ToolStart(p, t)) =>
                   /\ clients'[u] = clients[u]
                   /\ configs'[u] = configs[u]
                   /\ store'[u] = store[u]
                   /\ IsCached(Reg, u) =>
                         objs'[clients[u].client] = objs[clients[u].client]
          /\ \A p \in Ops :
                (ToolStart(p, t) /\ ops'[p].pc = "waiting") =>
                   /\ ops'[p].gate = clients'[t].semaphore
                   /\ objs'[ops'[p].gate].cfg.tenant_id = t
                   /\ objs'[ops'[p].gate].permits = 0 ]_vars

\* tenant "a" has an operation in flight and no permit left, and an
\* operation of tenant "A" started after that is in flight as well
C20_Witness ==
    /\ last.op = "get"
    /\ last.tenant = "A"
    /\ \E p, q \in Ops :
          /\ ops[p].tenant = "a"
          /\ ops[p].pc = "outbound"
          /\ ops[p].gate /= 0
          /\ objs[ops[p].gate].permits = 0
          /\ ops[q].tenant = "A"
          /\ ops[q].pc = "outbound"
          /\ ops[q].client = last.client
    /\ store["a"] /= None
    /\ store["A"] /= None
    /\ store["a"] /= store["A"]

\* C21: the keys of the client map, of the config cache and of the store
\* are the tenant ids as the callers, the store and the operator gave
\* them, never a case-changed form: where every source names the tenant
\* "A", nothing is held under "a"
C21_KeysNotCaseChanged ==
    \A t \in TenantIds :
       (IsCached(Reg, t) \/ configs[t] /= None \/ store[t] /= None) =>
          t \in CaseIds

\* C22: a tool invocation for a tenant that has no entry, no store record
\* and no environment variables ends with the tenant-not-found error and
\* issues no upstream operation (it neither waits at a gate nor starts an
\* outbound call)
C22_FailsAtUse ==
    [][ \A p \in Ops : \A t \in TenantIds :
          (/\ ToolStart(p, t)
           /\ ~IsCached(Reg, t)
           /\ store[t] = None
           /\ env[upper(t)] = None) =>
             /\ last'.raised = "notfound"
             /\ ops'[p] = IdleOp ]_vars

\* C23: a register_tenant in another adapter's registry on the same Redis
\* changes no entry, config or record of this registry; no config this
\* registry holds is one that another adapter's registry wrote; and a
\* tenant id that only another adapter has a record of stays not found
C23_AdapterKeysDisjoint ==
    [][ /\ \A t \in TenantIds :
             configs'[t] /= None => configs'[t].key /= OtherConfig(t).key
        /\ \A ad \in OtherAdapters : \A t \in TenantIds :
             OtherRegister(ad, t) =>
                /\ clients' = clients
                /\ configs' = configs
                /\ \A u \in TenantIds : redis_get(Reg, u)' = redis_get(Reg, u)
        /\ \A t \in TenantIds :
             (/\ GetClient(t)
              /\ ~IsCached(Reg, t)
              /\ store[t] = None
              /\ env[upper(t)] = None) => last'.raised = "notfound" ]_vars

\* the registry has looked for tenant "a" in the reachable Redis, where
\* another adapter's registry has a record of "a", and has not found it
C23_Witness ==
    /\ last.op = "get"
    /\ last.tenant = "a"
    /\ last.raised = "notfound"
    /\ last.reads = 1
    /\ redis_client = "conn"
    /\ \E r \in others : \E ad \in OtherAdapters : r.key = redis_key(ad, "a")

C25_SingleConstruction ==
    [][ \A p \in Ops :
          (GetEnd(p) /\ IsCached(Reg, ops[p].tenant)) =>
             /\ last'.built = 0
             /\ last'.client = clients[ops[p].tenant].client ]_vars

\* C26: between operations the client map and the config cache hold the
\* same tenant ids, and the cached config of each id is the one its
\* client was built from
C26_MapsAgree ==
    \A t \in TenantIds :
       /\ IsCached(Reg, t) <=> configs[t] /= None
       /\ IsCached(Reg, t) => objs[clients[t].client].cfg = configs[t]

\* C27: a get_client(t) cache miss or an initialize() that takes t's
\* config from the environment while the store is reachable leaves that
\* config in the store under t's key, and a cache miss for t that finds a
\* config in the reachable store registers the stored config
C27_EnvConfigPersisted ==
    [][ /\ \A t \in TenantIds :
             (/\ GetClient(t)
              /\ HasStore(adapter)
              /\ storeUp
              /\ ~IsCached(Reg, t)
              /\ last'.raised = "none") =>
                IF store[t].kind = "json"
                THEN configs'[t] = parse_json(store[t]).cfg
                ELSE store'[t] =
                        model_dump_json(load_tenant_from_env(adapter, t))
        /\ (/\ Initialize
            /\ storeUp
            /\ last'.raised = "none") =>
               \A t \in EnvScan :
                  configs[t] = None /\ store[t] = None =>
                     store'[t] =
                        model_dump_json(load_tenant_from_env(adapter, t)) ]_vars

\* C28: once a connection attempt has failed (_redis_initialized is set
\* and redis_client is None) every later register_tenant, get_client,
\* initialize and close_all leaves it so, reads no record and writes none,
\* whether or not the store has become reachable
C28_NoReconnect ==
    [][ (redis_initialized /\ redis_client = "None") =>
           /\ redis_initialized'
           /\ redis_client' = "None"
           /\ store' = store
           /\ last' /= last => last'.reads = 0 ]_vars

\* initialize() has run after close_all() with the store reachable, and
\* the registry still has no connection
C28_Witness ==
    /\ last.op = "init"
    /\ last.prior.op = "close"
    /\ last.up
    /\ storeUp
    /\ redis_initialized
    /\ redis_client = "None"

\* C29: under fair scheduling, with every outbound call ending, an
\* operation that waits at its tenant's gate is eventually admitted,
\* whatever max_concurrent_requests the tenant was registered with
C29_WaitingAdmitted ==
    \A p \in Ops : (ops[p].pc = "waiting") ~> (ops[p].pc = "outbound")

\* C30: with the store reachable, whenever no register_tenant call is in
\* progress, the stored record of every tenant in the map is the
\* serialization of its in-memory config
C30_PersistedEqualsMemory ==
    (storeUp /\ \A p \in Ops : ops[p].pc /= "saving") =>
       \A t \in TenantIds :
          IsCached(Reg, t) => store[t] = model_dump_json(configs[t])

====
